---- MODULE Spec2Model ----
(***************************************************************************)
(* Column-level lineage tracer of src/Sqlglot.py (class SQLLineageTracer). *)
(* The tracer walks the token tree that sqlparse.parse returns; the model  *)
(* keeps that tree (token classes, token types, whitespace) because the    *)
(* tracer's isinstance / ttype tests decide everything it records.         *)
(***************************************************************************)
EXTENDS Integers, Sequences, FiniteSets, TLC

(* ---------------------------------------------------------------------- *)
(* Bounds of the model                                                     *)
(* ---------------------------------------------------------------------- *)
\* total number of trace_lineage calls over all instances
MaxCalls == 3

\* the SQLLineageTracer instances
Engines == {"e1", "e2"}

\* the deepest token tree (in levels of groups) the interpreter's recursion
\* limit lets sqlparse build; sys.getrecursionlimit() frames in CPython
RecursionLimit == 9

\* the deepest nesting of function calls among the inputs
MaxNesting == 5

\* the most models (and thresholds) load_models finds
MaxModels == 3

\* predictions and thresholds range over 0..MaxLevel
MaxLevel == 1

\* the F1 of a candidate ranges over 0..MaxF1 (MaxF1 standing for 1.0)
MaxF1 == 2

(* ---------------------------------------------------------------------- *)
(* Python values                                                           *)
(* ---------------------------------------------------------------------- *)
\* Python's None where a name is expected (get_alias, get_parent_name, ...)
NoneVal == "<None>"

\* str(x) of a name or of None
Str(x) == IF x = NoneVal THEN "None" ELSE x

\* str.upper() on the vocabulary of the modelled statements (keywords are
\* kept in upper case, names in lower case)
Upper(s) ==
  CASE s = "a" -> "A" [] s = "b" -> "B" [] s = "x" -> "X" [] s = "id" -> "ID"
    [] s = "k" -> "K" [] s = "c1" -> "C1" [] s = "t" -> "T" [] s = "t1" -> "T1"
    [] s = "t2" -> "T2" [] s = "u" -> "U" [] s = "c" -> "C" [] s = "d" -> "D"
    [] s = "dest" -> "DEST" [] s = "derived_table" -> "DERIVED_TABLE"
    [] s = "sum" -> "SUM"
    [] OTHER -> s

(* ---------------------------------------------------------------------- *)
(* sqlparse tokens: cls is the Python class (sqlparse.sql), ttype the      *)
(* token type (sqlparse.tokens; "None" for a group), value the text.       *)
(* ---------------------------------------------------------------------- *)
Tok(ttype, value) ==
  [cls |-> "Token", ttype |-> ttype, value |-> value, tokens |-> <<>>,
   alias |-> NoneVal, real_name |-> NoneVal, parent_name |-> NoneVal]

\* Python's None where a token is expected
NoneToken ==
  [cls |-> "NoneType", ttype |-> "None", value |-> "None", tokens |-> <<>>,
   alias |-> NoneVal, real_name |-> NoneVal, parent_name |-> NoneVal]

\* every grouped node is a TokenList; a leaf is a plain Token
IsTokenList(t) == t.cls \notin {"Token", "NoneType"}

WS == Tok("Whitespace", " ")
Comma == Tok("Punctuation", ",")
Dot == Tok("Punctuation", ".")
Kw(v) == Tok("Keyword", v)
Dml(v) == Tok("DML", v)
NameTok(v) == Tok("Name", v)
IntTok(v) == Tok("Integer", v)

\* token_next_by(m=(ttype, value)): 0-based index of the first match, -1 for None
RECURSIVE IndexOfMatch(_, _, _, _)
IndexOfMatch(toks, i, ttype, value) ==
  IF i > Len(toks) THEN -1
  ELSE IF toks[i].ttype = ttype /\ toks[i].value = value THEN i - 1
  ELSE IndexOfMatch(toks, i + 1, ttype, value)

\* token_next_by(i=cls): 0-based index of the first instance of cls, -1 for None
RECURSIVE IndexOfClass(_, _, _)
IndexOfClass(toks, i, cls) ==
  IF i > Len(toks) THEN -1
  ELSE IF toks[i].cls = cls THEN i - 1
  ELSE IndexOfClass(toks, i + 1, cls)

Reverse(s) == [i \in 1..Len(s) |-> s[Len(s) + 1 - i]]

\* TokenList.get_name of an inner group: get_alias() or get_real_name()
GetName(t) == IF t.alias # NoneVal THEN t.alias ELSE t.real_name

\* TokenList._get_first_name over an already sliced / reversed token list;
\* an inner Identifier or Function answers with its own name
RECURSIVE FirstNameIn(_, _, _)
FirstNameIn(toks, keywords, real_name) ==
  IF toks = <<>> THEN NoneVal
  ELSE IF Head(toks).ttype \in
            ({"Name", "Wildcard", "Symbol"} \cup (IF keywords THEN {"Keyword"} ELSE {}))
    THEN Head(toks).value
  ELSE IF Head(toks).cls \in {"Identifier", "Function"}
    THEN (IF real_name THEN Head(toks).real_name ELSE GetName(Head(toks)))
  ELSE FirstNameIn(Tail(toks), keywords, real_name)

\* TokenList._get_first_name(idx, ...): tokens[idx:] if idx else tokens
FirstName(toks, idx, reverse, keywords, real_name) ==
  FirstNameIn(
    IF reverse
      THEN Reverse(IF idx > 0 THEN SubSeq(toks, idx + 1, Len(toks)) ELSE toks)
      ELSE (IF idx > 0 THEN SubSeq(toks, idx + 1, Len(toks)) ELSE toks),
    keywords, real_name)

\* TokenList.get_real_name of a group with tokens toks
RealNameOf(toks) == FirstName(toks, IndexOfMatch(toks, 1, "Punctuation", "."), FALSE, FALSE, TRUE)

\* get_alias once the AS keyword was looked for (kw_idx)
AliasAt(toks, kw_idx) ==
  IF kw_idx >= 0 THEN FirstName(toks, kw_idx + 1, FALSE, TRUE, FALSE)
  ELSE IF Len(toks) > 2 /\ \E i \in 1..Len(toks) : toks[i].ttype = "Whitespace"
    THEN FirstName(toks, -1, TRUE, FALSE, FALSE)
  ELSE NoneVal

\* TokenList.get_alias of a group with tokens toks
AliasOf(toks) == AliasAt(toks, IndexOfMatch(toks, 1, "Keyword", "AS"))

\* get_parent_name once the dot was looked for: the token before it
ParentNameAt(toks, dot_idx) == IF dot_idx <= 0 THEN NoneVal ELSE toks[dot_idx].value

\* TokenList.get_parent_name of a group with tokens toks
ParentNameOf(toks) == ParentNameAt(toks, IndexOfMatch(toks, 1, "Punctuation", "."))

\* the three name methods, read from the group (they are computed from its
\* tokens when the group is built, see Group)
GetRealName(t) == t.real_name
GetAlias(t) == t.alias
HasAlias(t) == t.alias # NoneVal
GetParentName(t) == t.parent_name

\* IdentifierList.get_identifiers: all but whitespace and commas
GetIdentifiers(t) ==
  SelectSeq(t.tokens, LAMBDA x : ~(x.ttype = "Whitespace" \/ (x.ttype = "Punctuation" /\ x.value = ",")))

\* Comparison.left / Comparison.right
Left(t) == t.tokens[1]
Right(t) == t.tokens[Len(t.tokens)]

\* the parameters found in the parenthesis of a function
ParametersIn(par_tokens, lists) ==
  IF lists # <<>> THEN GetIdentifiers(lists[1])
  ELSE SelectSeq(par_tokens,
         LAMBDA x : x.cls \in {"Function", "Identifier"} \/ x.ttype \in {"Integer", "String"})

\* Function.get_parameters
GetParameters(t) ==
  ParametersIn(t.tokens[Len(t.tokens)].tokens,
               SelectSeq(t.tokens[Len(t.tokens)].tokens, LAMBDA x : x.cls = "IdentifierList"))

(* ---------------------------------------------------------------------- *)
(* The token trees sqlparse builds                                         *)
(* ---------------------------------------------------------------------- *)
\* str(token) of a group: the text of its tokens
RECURSIVE Text(_)
Text(toks) == IF toks = <<>> THEN "" ELSE Head(toks).value \o Text(Tail(toks))

\* a group of class cls over toks, with its text and its names
Group(cls, toks) ==
  [cls |-> cls, ttype |-> "None", value |-> Text(toks), tokens |-> toks,
   alias |-> AliasOf(toks), real_name |-> RealNameOf(toks), parent_name |-> ParentNameOf(toks)]

\* a, t
Ident(n) == Group("Identifier", <<NameTok(n)>>)
\* t1.id
QIdent(p, n) == Group("Identifier", <<NameTok(p), Dot, NameTok(n)>>)
\* derived_table d: the alias extends the Identifier of the name
AliasIdent(n, al) == Group("Identifier", <<NameTok(n), WS, Ident(al)>>)
\* x, y
IdList(x, y) == Group("IdentifierList", <<x, Comma, WS, y>>)
\* l = r
Cmp(l, r) == Group("Comparison", <<l, WS, Tok("Comparison", "="), WS, r>>)
\* ( ... )
Paren(toks) == Group("Parenthesis", <<Tok("Punctuation", "(")>> \o toks \o <<Tok("Punctuation", ")")>>)
\* name(args)
Call(name, args) == Group("Function", <<Ident(name), Paren(args)>>)
\* l + r
Plus(l, r) == Group("Operation", <<l, WS, Tok("Operator", "+"), WS, r>>)
\* WHERE cond
WhereClause(cond) == Group("Where", <<Kw("WHERE"), WS, cond>>)
Statement(toks) == Group("Statement", toks)

\* SELECT items FROM from
SelectTokens(items, from) == <<Dml("SELECT"), WS, items, WS, Kw("FROM"), WS, from>>
\* ... JOIN table ON cond
JoinTokens(table, cond) == <<WS, Kw("JOIN"), WS, table, WS, Kw("ON"), WS, cond>>

(* ---------------------------------------------------------------------- *)
(* The accumulator: Dict[target, Set[source]], a function on its keys      *)
(* ---------------------------------------------------------------------- *)
EmptyGraph == [k \in {} |-> {}]

\* a mutant accumulator: the target's set is replaced instead of extended
AddLineageOverwrite(g, target, source) ==
  IF target # source
    THEN [k \in DOMAIN g \cup {target} |-> IF k = target THEN {source} ELSE g[k]]
    ELSE g

\* a mutant accumulator: the target's entry is created before the
\* self-reference test
AddLineageKeyFirst(g, target, source) ==
  [k \in DOMAIN g \cup {target} |->
     IF k \in DOMAIN g
       THEN (IF k = target /\ target # source THEN g[k] \cup {source} ELSE g[k])
       ELSE (IF target # source THEN {source} ELSE {})]

\* SQLLineageTracer._add_lineage
AddLineage(g, target, source) ==
  IF target # source
    THEN [k \in DOMAIN g \cup {target} |->
            IF k = target THEN (IF k \in DOMAIN g THEN g[k] ELSE {}) \cup {source} ELSE g[k]]
    ELSE g

\* for source in sources: self._add_lineage(target, source)
RECURSIVE AddSources(_, _, _)
AddSources(g, target, sources) ==
  IF sources = <<>> THEN g
  ELSE AddSources(AddLineage(g, target, Head(sources)), target, Tail(sources))

\* the edges of a graph as (target, source) pairs
Edges(g) == UNION {{<<t, s>> : s \in g[t]} : t \in DOMAIN g}

(* ---------------------------------------------------------------------- *)
(* Reading the statement                                                   *)
(* ---------------------------------------------------------------------- *)
\* a value or a raised exception
Ok(v) == [exc |-> FALSE, val |-> v]
Raised == [exc |-> TRUE, val |-> <<>>]

\* x, then the rest of a list whose building may have raised
Cons(x, rest) == IF rest.exc THEN Raised ELSE Ok(<<x>> \o rest.val)

\* token.ttype is Keyword and token.value.upper() in values
IsKeyword(token, values) == token.ttype = "Keyword" /\ Upper(token.value) \in values

\* SQLLineageTracer._get_table_name (identifier is a TokenList)
GetTableName(identifier, ctes) ==
  IF HasAlias(identifier) THEN GetAlias(identifier)
  ELSE IF GetRealName(identifier) \in DOMAIN ctes THEN GetRealName(identifier)
  ELSE Str(GetRealName(identifier))

\* [self._get_table_name(i) for i in identifiers]; a plain Token has no has_alias
RECURSIVE TableNames(_, _)
TableNames(identifiers, ctes) ==
  IF identifiers = <<>> THEN Ok(<<>>)
  ELSE IF ~IsTokenList(Head(identifiers)) THEN Raised
  ELSE Cons(GetTableName(Head(identifiers), ctes), TableNames(Tail(identifiers), ctes))

\* the tables one token of the statement adds to the list
TablesOfToken(token, from_seen, ctes) ==
  IF from_seen /\ token.cls = "IdentifierList" THEN TableNames(GetIdentifiers(token), ctes)
  ELSE IF from_seen /\ token.cls = "Identifier" THEN Ok(<<GetTableName(token, ctes)>>)
  ELSE Ok(<<>>)

RECURSIVE FromTablesLoop(_, _, _, _, _)
\* one round of the loop, got being the tables of token toks[i]
FromTablesStep(toks, i, from_seen, ctes, tables, got) ==
  IF got.exc THEN Raised
  ELSE IF IsKeyword(toks[i], {"WHERE", "GROUP", "HAVING", "ORDER"}) THEN Ok(tables \o got.val)
  ELSE FromTablesLoop(toks, i + 1, from_seen \/ IsKeyword(toks[i], {"FROM"}), ctes,
                      tables \o got.val)

FromTablesLoop(toks, i, from_seen, ctes, tables) ==
  IF i > Len(toks) THEN Ok(tables)
  ELSE FromTablesStep(toks, i, from_seen, ctes, tables, TablesOfToken(toks[i], from_seen, ctes))

\* SQLLineageTracer._get_from_tables
GetFromTables(statement, ctes) == FromTablesLoop(statement.tokens, 1, FALSE, ctes, <<>>)

\* SQLLineageTracer._parse_select_item (item is a TokenList)
ParseSelectItem(item) ==
  IF HasAlias(item)
    THEN [name |-> Str(GetRealName(item)), alias |-> Str(GetAlias(item)), expr |-> item]
    ELSE [name |-> Str(GetRealName(item)), alias |-> NoneVal, expr |-> item]

RECURSIVE ParseSelectItems(_)
ParseSelectItems(identifiers) ==
  IF identifiers = <<>> THEN Ok(<<>>)
  ELSE IF ~IsTokenList(Head(identifiers)) THEN Raised
  ELSE Cons(ParseSelectItem(Head(identifiers)), ParseSelectItems(Tail(identifiers)))

\* the select items one token of the statement adds to the list
ItemsOfToken(token, select_seen) ==
  IF select_seen /\ token.cls = "IdentifierList" THEN ParseSelectItems(GetIdentifiers(token))
  ELSE IF select_seen /\ token.cls = "Identifier" THEN Ok(<<ParseSelectItem(token)>>)
  ELSE IF select_seen /\ token.ttype = "Wildcard"
    THEN Ok(<<[name |-> "*", alias |-> NoneVal, expr |-> token]>>)
  ELSE Ok(<<>>)

\* token.ttype is DML and token.value.upper() == 'SELECT'
IsSelect(token) == token.ttype = "DML" /\ Upper(token.value) = "SELECT"

RECURSIVE SelectItemsLoop(_, _, _, _)
\* one round of the loop, got being the items of token toks[i]
SelectItemsStep(toks, i, select_seen, items, got) ==
  IF got.exc THEN Raised
  ELSE IF ~IsSelect(toks[i]) /\ IsKeyword(toks[i], {"FROM", "WHERE"}) THEN Ok(items \o got.val)
  ELSE SelectItemsLoop(toks, i + 1, select_seen \/ IsSelect(toks[i]), items \o got.val)

SelectItemsLoop(toks, i, select_seen, items) ==
  IF i > Len(toks) THEN Ok(items)
  ELSE SelectItemsStep(toks, i, select_seen, items, ItemsOfToken(toks[i], select_seen))

\* SQLLineageTracer._get_select_items
GetSelectItems(statement) == SelectItemsLoop(statement.tokens, 1, FALSE, <<>>)

\* a mutant: the qualifier is not compared, the first table takes the column
FirstMatchingTableAny(expr, from_tables) ==
  IF from_tables = <<>> THEN <<>>
  ELSE <<<<Head(from_tables), Str(GetRealName(expr))>>>>

\* a mutant: only a qualified column matches a table
RECURSIVE FirstMatchingTableQualified(_, _)
FirstMatchingTableQualified(expr, from_tables) ==
  IF from_tables = <<>> THEN <<>>
  ELSE IF GetParentName(expr) = Head(from_tables)
    THEN <<<<Head(from_tables), Str(GetRealName(expr))>>>>
  ELSE FirstMatchingTableQualified(expr, Tail(from_tables))

\* for table in from_tables: the first table the identifier is qualified by,
\* or the first table at all when it has no qualifier
RECURSIVE FirstMatchingTable(_, _)
FirstMatchingTable(expr, from_tables) ==
  IF from_tables = <<>> THEN <<>>
  ELSE IF GetParentName(expr) = Head(from_tables) \/ GetParentName(expr) = NoneVal
    THEN <<<<Head(from_tables), Str(GetRealName(expr))>>>>
  ELSE FirstMatchingTable(expr, Tail(from_tables))

\* the tokens of a TokenList that are neither whitespace nor punctuation
Significant(toks) == SelectSeq(toks, LAMBDA x : x.ttype # "Whitespace" /\ x.ttype # "Punctuation")

\* what the walker recurses into: the aliased expression of an Identifier,
\* the parameters of a Function, the two sides of a Comparison, the tokens
\* of any other TokenList; nothing for an Identifier without alias or a Token
SubExpressions(expr) ==
  IF expr.cls = "Identifier" THEN (IF HasAlias(expr) THEN <<expr.tokens[1]>> ELSE <<>>)
  ELSE IF expr.cls = "Function" THEN GetParameters(expr)
  ELSE IF expr.cls = "Comparison" THEN <<Left(expr), Right(expr)>>
  ELSE IF IsTokenList(expr) THEN Significant(expr.tokens)
  ELSE <<>>

\* SQLLineageTracer._extract_source_columns: an Identifier without alias is
\* a column of a table of from_tables, every other expression the
\* concatenation of the sources of its sub-expressions
RECURSIVE ExtractEach(_, _)
ExtractSourceColumns(expr, from_tables) ==
  IF expr.cls = "Identifier" /\ ~HasAlias(expr) THEN FirstMatchingTable(expr, from_tables)
  ELSE ExtractEach(SubExpressions(expr), from_tables)

\* sources.extend(self._extract_source_columns(x, from_tables)) for x in exprs
ExtractEach(exprs, from_tables) ==
  IF exprs = <<>> THEN <<>>
  ELSE ExtractSourceColumns(Head(exprs), from_tables) \o ExtractEach(Tail(exprs), from_tables)

(* ---------------------------------------------------------------------- *)
(* Clause processing                                                       *)
(* ---------------------------------------------------------------------- *)
\* a mutant: only the first of the two edges is recorded
AddOneWay(g, target_table, left, right) == AddLineage(g, <<target_table, left[2]>>, right)

\* self._add_lineage((T, left[1]), right); self._add_lineage((T, right[1]), left)
AddBothWays(g, target_table, left, right) ==
  AddLineage(AddLineage(g, <<target_table, left[2]>>, right), <<target_table, right[2]>>, left)

\* for right in right_sources
RECURSIVE AddPairsRight(_, _, _, _)
AddPairsRight(g, target_table, left, rights) ==
  IF rights = <<>> THEN g
  ELSE AddPairsRight(AddBothWays(g, target_table, left, Head(rights)),
                     target_table, left, Tail(rights))

\* for left in left_sources
RECURSIVE AddPairs(_, _, _, _)
AddPairs(g, target_table, lefts, rights) ==
  IF lefts = <<>> THEN g
  ELSE AddPairs(AddPairsRight(g, target_table, Head(lefts), rights), target_table, Tail(lefts), rights)

\* the lineage a comparison adds (the Comparison case of _process_condition
\* and the body of _process_joins)
AddComparison(g, comparison, target_table) ==
  AddPairs(g, target_table,
           ExtractSourceColumns(Left(comparison), <<target_table>>),
           ExtractSourceColumns(Right(comparison), <<target_table>>))

JoinKeywords == {"JOIN", "INNER JOIN", "LEFT JOIN", "RIGHT JOIN", "FULL JOIN"}

\* the graph after the round of the loop of _process_joins for token
JoinToken(g, token, join_seen, target_table) ==
  IF join_seen /\ token.cls = "Comparison" THEN AddComparison(g, token, target_table) ELSE g

RECURSIVE JoinsLoop(_, _, _, _, _)
JoinsLoop(g, toks, i, join_seen, target_table) ==
  IF i > Len(toks) THEN g
  ELSE IF ~IsKeyword(toks[i], JoinKeywords)
          /\ IsKeyword(toks[i], {"WHERE", "GROUP BY", "HAVING", "ORDER BY"})
    THEN g   \* the break: a keyword is no Comparison, its round added nothing
  ELSE JoinsLoop(JoinToken(g, toks[i], join_seen, target_table), toks, i + 1,
                 join_seen \/ IsKeyword(toks[i], JoinKeywords), target_table)

\* SQLLineageTracer._process_joins
ProcessJoins(g, statement, target_table) ==
  JoinsLoop(g, statement.tokens, 1, FALSE, target_table)

\* the comparisons _process_condition reaches: the condition itself, or
\* the Comparison tokens of a TokenList
ConditionComparisons(condition) ==
  IF condition.cls = "Comparison" THEN <<condition>>
  ELSE IF IsTokenList(condition) THEN SelectSeq(condition.tokens, LAMBDA x : x.cls = "Comparison")
  ELSE <<>>

RECURSIVE AddComparisons(_, _, _)
AddComparisons(g, comparisons, target_table) ==
  IF comparisons = <<>> THEN g
  ELSE AddComparisons(AddComparison(g, Head(comparisons), target_table),
                      Tail(comparisons), target_table)

\* SQLLineageTracer._process_condition
ProcessCondition(g, condition, target_table) ==
  AddComparisons(g, ConditionComparisons(condition), target_table)

\* the second member of the pair token_next_by returns: the token, or None
TokenAt(toks, idx) == IF idx >= 0 THEN toks[idx + 1] ELSE NoneToken

\* SQLLineageTracer._process_where: the pair token_next_by returns is always
\* true; its second member is the Where group or None
ProcessWhere(g, statement, target_table) ==
  ProcessCondition(g, TokenAt(statement.tokens, IndexOfClass(statement.tokens, 1, "Where")),
                   target_table)

RECURSIVE GroupByItems(_, _, _)
GroupByItems(g, identifiers, target_table) ==
  IF identifiers = <<>> THEN g
  ELSE GroupByItems(
         AddSources(g, <<target_table, Head(identifiers).value>>,
                    ExtractSourceColumns(Head(identifiers), <<target_table>>)),
         Tail(identifiers), target_table)

\* the graph after the round of the loop of _process_group_by for token
GroupByToken(g, token, group_by_seen, target_table) ==
  IF group_by_seen /\ token.cls = "IdentifierList"
    THEN GroupByItems(g, GetIdentifiers(token), target_table) ELSE g

RECURSIVE GroupByLoop(_, _, _, _, _)
GroupByLoop(g, toks, i, group_by_seen, target_table) ==
  IF i > Len(toks) THEN g
  ELSE IF ~IsKeyword(toks[i], {"GROUP BY"}) /\ IsKeyword(toks[i], {"HAVING", "ORDER BY"})
    THEN g   \* the break: a keyword is no IdentifierList, its round added nothing
  ELSE GroupByLoop(GroupByToken(g, toks[i], group_by_seen, target_table), toks, i + 1,
                   group_by_seen \/ IsKeyword(toks[i], {"GROUP BY"}), target_table)

\* SQLLineageTracer._process_group_by
ProcessGroupBy(g, statement, target_table) ==
  GroupByLoop(g, statement.tokens, 1, FALSE, target_table)

\* SQLLineageTracer._process_having: the matched token is the HAVING keyword
ProcessHaving(g, statement, target_table) ==
  ProcessCondition(g, TokenAt(statement.tokens, IndexOfMatch(statement.tokens, 1, "Keyword", "HAVING")),
                   target_table)

(* ---------------------------------------------------------------------- *)
(* Statement processing. st = [lineage, ctes, exc]: the instance's two     *)
(* dictionaries and whether an exception is propagating.                   *)
(* ---------------------------------------------------------------------- *)
Raise(st) == [st EXCEPT !.exc = TRUE]

\* target_column = item['alias'] if item['alias'] else item['name']
TargetColumn(item) == IF item.alias # NoneVal THEN item.alias ELSE item.name

RECURSIVE SelectItemEdges(_, _, _, _)
SelectItemEdges(g, items, from_tables, target_table) ==
  IF items = <<>> THEN g
  ELSE SelectItemEdges(
         AddSources(g, <<target_table, TargetColumn(Head(items))>>,
                    ExtractSourceColumns(Head(items).expr, from_tables)),
         Tail(items), from_tables, target_table)

\* the body of _process_select once from_tables and select_items are read
SelectBody(st, statement, target_table, from_tables, select_items) ==
  IF from_tables.exc \/ select_items.exc THEN Raise(st)
  ELSE [st EXCEPT !.lineage =
          ProcessHaving(
            ProcessGroupBy(
              ProcessWhere(
                ProcessJoins(
                  SelectItemEdges(st.lineage, select_items.val, from_tables.val, target_table),
                  statement, target_table),
                statement, target_table),
              statement, target_table),
            statement, target_table)]

\* SQLLineageTracer._process_select
ProcessSelect(st, statement, target_table) ==
  SelectBody(st, statement, target_table,
             GetFromTables(statement, st.ctes), GetSelectItems(statement))

\* a Function named INTO
IsIntoFunction(token) == token.cls = "Function" /\ Upper(GetName(token)) = "INTO"

\* SQLLineageTracer._get_insert_target_table; get_name() of None has no upper()
RECURSIVE InsertTargetLoop(_, _)
InsertTargetLoop(toks, i) ==
  IF i > Len(toks) THEN Ok("unknown_table")
  ELSE IF toks[i].cls = "Function" /\ GetName(toks[i]) = NoneVal THEN Raised
  ELSE IF IsIntoFunction(toks[i]) THEN Ok(Right(toks[i]).value)
  ELSE InsertTargetLoop(toks, i + 1)

GetInsertTargetTable(statement) == InsertTargetLoop(statement.tokens, 1)

\* [str(col) for col in identifier.tokens if isinstance(col, Identifier)]
ColumnNames(cols) == [j \in 1..Len(cols) |-> cols[j].value]

\* SQLLineageTracer._get_insert_columns
RECURSIVE InsertColumnsLoop(_, _)
InsertColumnsLoop(toks, i) ==
  IF i > Len(toks) THEN Ok(<<>>)
  ELSE IF toks[i].cls = "Function" /\ GetName(toks[i]) = NoneVal THEN Raised
  ELSE IF IsIntoFunction(toks[i]) /\ Right(toks[i]).cls = "Identifier"
    THEN Ok(ColumnNames(SelectSeq(Right(toks[i]).tokens, LAMBDA c : c.cls = "Identifier")))
  ELSE InsertColumnsLoop(toks, i + 1)

GetInsertColumns(statement) == InsertColumnsLoop(statement.tokens, 1)

\* SQLLineageTracer._get_insert_select and _get_create_select: the first
\* IdentifierList whose first token is the DML keyword SELECT, else None
RECURSIVE EmbeddedSelectLoop(_, _)
EmbeddedSelectLoop(toks, i) ==
  IF i > Len(toks) THEN NoneToken
  ELSE IF toks[i].cls = "IdentifierList" /\ IsSelect(toks[i].tokens[1]) THEN toks[i]
  ELSE EmbeddedSelectLoop(toks, i + 1)

GetInsertSelect(statement) == EmbeddedSelectLoop(statement.tokens, 1)

GetCreateSelect(statement) == EmbeddedSelectLoop(statement.tokens, 1)

\* for target_col, select_item in zip(target_columns, select_items)
RECURSIVE InsertPairs(_, _, _, _, _)
InsertPairs(g, target_table, target_columns, select_items, from_tables) ==
  IF target_columns = <<>> \/ select_items = <<>> THEN g
  ELSE InsertPairs(
         AddSources(g, <<target_table, Head(target_columns)>>,
                    ExtractSourceColumns(Head(select_items).expr, from_tables)),
         target_table, Tail(target_columns), Tail(select_items), from_tables)

\* the if select_statement block of _process_insert; from_tables is read
\* inside the loop, so only when the zip is not empty
InsertFromSelect(st, target_table, target_columns, select_items, from_tables) ==
  IF select_items.exc THEN Raise(st)
  ELSE IF target_columns = <<>> \/ select_items.val = <<>> THEN st
  ELSE IF from_tables.exc THEN Raise(st)
  ELSE [st EXCEPT !.lineage =
          InsertPairs(st.lineage, target_table, target_columns, select_items.val, from_tables.val)]

\* the body of _process_insert once its three readers have run
InsertBody(st, target_table, target_columns, select_statement) ==
  IF target_table.exc \/ target_columns.exc THEN Raise(st)
  ELSE IF select_statement = NoneToken THEN st
  ELSE InsertFromSelect(st, target_table.val, target_columns.val,
                        GetSelectItems(select_statement),
                        GetFromTables(select_statement, st.ctes))

\* SQLLineageTracer._process_insert
ProcessInsert(st, statement) ==
  InsertBody(st, GetInsertTargetTable(statement), GetInsertColumns(statement),
             GetInsertSelect(statement))

\* SQLLineageTracer._get_update_target_table: the token after a token of
\* type Keyword whose value is UPDATE (IndexError when it is the last)
RECURSIVE UpdateTargetLoop(_, _)
UpdateTargetLoop(toks, i) ==
  IF i > Len(toks) THEN Ok("unknown_table")
  ELSE IF IsKeyword(toks[i], {"UPDATE"})
    THEN (IF i + 1 > Len(toks) THEN Raised ELSE Ok(toks[i + 1].value))
  ELSE UpdateTargetLoop(toks, i + 1)

GetUpdateTargetTable(statement) == UpdateTargetLoop(statement.tokens, 1)

\* {'column': str(identifier.left), 'value': identifier.right} of each Comparison
Assignments(cmps) ==
  [j \in 1..Len(cmps) |-> [column |-> Left(cmps[j]).value, value |-> Right(cmps[j])]]

\* the assignments one token of the statement adds to the list
SetItemsOfToken(token, set_seen) ==
  IF set_seen /\ token.cls = "IdentifierList"
    THEN Assignments(SelectSeq(GetIdentifiers(token), LAMBDA c : c.cls = "Comparison"))
    ELSE <<>>

RECURSIVE SetItemsLoop(_, _, _, _)
SetItemsLoop(toks, i, set_seen, items) ==
  IF i > Len(toks) THEN items
  ELSE IF ~IsKeyword(toks[i], {"SET"}) /\ IsKeyword(toks[i], {"WHERE"})
    THEN items   \* the break: a keyword is no IdentifierList, its round added nothing
  ELSE SetItemsLoop(toks, i + 1, set_seen \/ IsKeyword(toks[i], {"SET"}),
                    items \o SetItemsOfToken(toks[i], set_seen))

\* SQLLineageTracer._get_update_set_items
GetUpdateSetItems(statement) == SetItemsLoop(statement.tokens, 1, FALSE, <<>>)

RECURSIVE SetItemEdges(_, _, _)
SetItemEdges(g, items, target_table) ==
  IF items = <<>> THEN g
  ELSE SetItemEdges(
         AddSources(g, <<target_table, Head(items).column>>,
                    ExtractSourceColumns(Head(items).value, <<target_table>>)),
         Tail(items), target_table)

\* the body of _process_update once the target table is read
UpdateBody(st, statement, target_table) ==
  IF target_table.exc THEN Raise(st)
  ELSE [st EXCEPT !.lineage =
          ProcessWhere(
            SetItemEdges(st.lineage, GetUpdateSetItems(statement), target_table.val),
            statement, target_table.val)]

\* SQLLineageTracer._process_update
ProcessUpdate(st, statement) == UpdateBody(st, statement, GetUpdateTargetTable(statement))

\* SQLLineageTracer._get_delete_target_table
RECURSIVE DeleteTargetLoop(_, _, _)
DeleteTargetLoop(toks, i, from_seen) ==
  IF i > Len(toks) THEN "unknown_table"
  ELSE IF from_seen /\ toks[i].cls = "Identifier" THEN toks[i].value
  ELSE DeleteTargetLoop(toks, i + 1, from_seen \/ IsKeyword(toks[i], {"FROM"}))

GetDeleteTargetTable(statement) == DeleteTargetLoop(statement.tokens, 1, FALSE)

\* a mutant: a DELETE records nothing
ProcessDeleteNothing(st, statement) == st

\* SQLLineageTracer._process_delete
ProcessDelete(st, statement) ==
  [st EXCEPT !.lineage = ProcessWhere(st.lineage, statement, GetDeleteTargetTable(statement))]

\* SQLLineageTracer._get_create_target_table: str of the first Identifier
RECURSIVE CreateTargetLoop(_, _)
CreateTargetLoop(toks, i) ==
  IF i > Len(toks) THEN "unknown_table"
  ELSE IF toks[i].cls = "Identifier" THEN toks[i].value
  ELSE CreateTargetLoop(toks, i + 1)

GetCreateTargetTable(statement) == CreateTargetLoop(statement.tokens, 1)

\* the body of _process_create once the embedded SELECT is looked for
CreateBody(st, statement, select_statement) ==
  IF select_statement = NoneToken THEN st
  ELSE ProcessSelect(st, select_statement, GetCreateTargetTable(statement))

\* SQLLineageTracer._process_create
ProcessCreate(st, statement) == CreateBody(st, statement, GetCreateSelect(statement))

\* self.ctes[token.get_real_name()] = token.tokens[-1]
Register(ctes, name, query) ==
  [n \in DOMAIN ctes \cup {name} |-> IF n = name THEN query ELSE ctes[n]]

\* the loop of _process_with over the statement's tokens
RECURSIVE RegisterCtes(_, _, _)
RegisterCtes(ctes, toks, i) ==
  IF i > Len(toks) THEN ctes
  ELSE IF toks[i].cls = "Identifier"
    THEN RegisterCtes(Register(ctes, GetRealName(toks[i]), Right(toks[i])), toks, i + 1)
  ELSE RegisterCtes(ctes, toks, i + 1)

\* SQLLineageTracer._process_with: the CTEs are registered, then the main
\* query is taken to be the statement's Where group (or None), which has no
\* get_type method, so _process_statement(main_query) raises AttributeError
ProcessWith(st, statement) ==
  [st EXCEPT !.ctes = RegisterCtes(st.ctes, statement.tokens, 1), !.exc = TRUE]

\* the first token at or after position i that is not whitespace (0: none)
RECURSIVE NextNonWs(_, _)
NextNonWs(toks, i) ==
  IF i > Len(toks) THEN 0
  ELSE IF toks[i].ttype = "Whitespace" THEN NextNonWs(toks, i + 1)
  ELSE i

\* get_type of a statement that starts with the CTE keyword: the DML keyword
\* that follows the Identifier or IdentifierList of the CTEs (second, third:
\* the positions of the next two tokens that are not whitespace)
CteType(toks, second, third) ==
  IF second # 0 /\ third # 0 /\ toks[second].cls \in {"Identifier", "IdentifierList"}
     /\ toks[third].ttype = "DML"
    THEN Upper(toks[third].value)
    ELSE "UNKNOWN"

\* get_type once the first token that is not whitespace is found
TypeFrom(toks, first) ==
  IF first = 0 THEN "UNKNOWN"
  ELSE IF toks[first].ttype \in {"DML", "DDL"} THEN Upper(toks[first].value)
  ELSE IF toks[first].ttype = "CTE"
    THEN CteType(toks, NextNonWs(toks, first + 1), NextNonWs(toks, NextNonWs(toks, first + 1) + 1))
  ELSE "UNKNOWN"

\* sqlparse Statement.get_type, called at every branch of _process_statement
GetType(statement) == TypeFrom(statement.tokens, NextNonWs(statement.tokens, 1))

\* the branches of _process_statement for a statement of type type
Dispatch(st, statement, type) ==
  IF type = "WITH" THEN ProcessWith(st, statement)
  ELSE IF type = "SELECT" THEN ProcessSelect(st, statement, "derived_table")
  ELSE IF type = "INSERT" THEN ProcessInsert(st, statement)
  ELSE IF type = "UPDATE" THEN ProcessUpdate(st, statement)
  ELSE IF type = "DELETE" THEN ProcessDelete(st, statement)
  ELSE IF type = "CREATE" THEN ProcessCreate(st, statement)
  ELSE st

\* SQLLineageTracer._process_statement
ProcessStatement(st, statement) == Dispatch(st, statement, GetType(statement))

\* for statement in statements: self._process_statement(statement), stopped
\* by the first exception
RECURSIVE ProcessStatements(_, _)
ProcessStatements(st, statements) ==
  IF statements = <<>> \/ st.exc THEN st
  ELSE ProcessStatements(ProcessStatement(st, Head(statements)), Tail(statements))

(* ---------------------------------------------------------------------- *)
(* The inputs: SQL texts and what sqlparse.parse returns for them          *)
(* ---------------------------------------------------------------------- *)
\* a non-text argument: sqlparse.parse raises TypeError
NonText == NoneVal

SqlSelectA == "SELECT a FROM t"
SqlSelectAA == "SELECT a, a FROM t"
SqlSelectB == "SELECT b FROM u"
SqlSelectLiteral == "SELECT a, 1 FROM t"
SqlSelectAlias == "SELECT a FROM derived_table d"
SqlJoin == "SELECT a FROM t1 JOIN t2 ON t1.id = t2.id"
SqlJoinQualified == "SELECT id FROM t1 JOIN t2 ON t1.id = t2.k"
SqlJoinUnqualified == "SELECT id FROM t1 JOIN t2 ON id = k"
SqlWith == "WITH c AS (SELECT x FROM t) SELECT x FROM c"
SqlInsert == "INSERT INTO dest (c1) SELECT x FROM t"
SqlDelete == "DELETE FROM t WHERE a = b"
SqlUpdate == "UPDATE t SET a = b, id = k"
SqlTwo == "SELECT a FROM t; SELECT b, 1 FROM u"
SqlUpdateOne == "UPDATE t SET a = b"
SqlUpdateWhere == "UPDATE t SET a = b, id = k WHERE c = d"
SqlDeleteAll == "DELETE FROM t"
SqlSelectThenDelete == "SELECT a FROM t; DELETE FROM t WHERE a = b"
SqlInsertValues == "INSERT INTO dest (c1) VALUES (1)"
SqlCreateAs == "CREATE TABLE dest AS SELECT x FROM t"
SqlCreatePlain == "CREATE TABLE dest (c1 INT)"
SqlUnion == "SELECT a FROM t UNION SELECT a FROM u"
SqlUnionAll == "SELECT a FROM t UNION ALL SELECT b FROM u"
SqlWithTwo == "WITH c AS (SELECT x FROM t), d AS (SELECT x FROM c) SELECT x FROM d"
SqlFromTwo == "SELECT a FROM t, u"
SqlQualifiedAlias == "SELECT d.a FROM t d"
SqlUnknownQualifier == "SELECT u.a FROM t"
SqlFunction == "SELECT sum(a), k FROM t"
SqlFunctionTwoArgs == "SELECT sum(a, b), k FROM t"
SqlFunctionOp == "SELECT sum(a + b), k FROM t"
SqlFunctionAlone == "SELECT sum(a) FROM t"

\* sum(sum(...(a)...)), n calls deep: its text and its token tree
RECURSIVE NestedText(_)
NestedText(n) == IF n = 0 THEN "a" ELSE "sum(" \o NestedText(n - 1) \o ")"

RECURSIVE NestedCall(_)
NestedCall(n) == IF n = 0 THEN Ident("a") ELSE Call("sum", <<NestedCall(n - 1)>>)

SqlNested(n) == "SELECT " \o NestedText(n) \o ", k FROM t"
NestedInputs == {SqlNested(n) : n \in 2..MaxNesting}
SqlGroupByOne == "SELECT a FROM t GROUP BY b"
SqlGroupByList == "SELECT a FROM t GROUP BY b, k"
SqlInsertWide == "INSERT INTO dest (c1, k) SELECT x FROM t"
SqlInsertNarrow == "INSERT INTO dest (c1) SELECT x, a FROM t"

Inputs ==
  {NonText, SqlSelectA, SqlSelectAA, SqlSelectB, SqlSelectLiteral, SqlSelectAlias, SqlJoin,
   SqlJoinQualified, SqlJoinUnqualified, SqlWith, SqlInsert, SqlDelete, SqlUpdate, SqlTwo,
   SqlUpdateOne, SqlUpdateWhere, SqlDeleteAll, SqlSelectThenDelete, SqlInsertValues,
   SqlCreateAs, SqlCreatePlain, SqlUnion, SqlUnionAll, SqlWithTwo, SqlFromTwo,
   SqlQualifiedAlias, SqlUnknownQualifier, SqlFunction, SqlFunctionTwoArgs, SqlFunctionOp, SqlFunctionAlone, SqlGroupByOne, SqlGroupByList, SqlInsertWide, SqlInsertNarrow}
    \cup NestedInputs

\* statements = sqlparse.parse(sql)
Parse(sql) ==
  CASE sql = NonText -> Raised
    [] sql = SqlSelectA -> Ok(<<Statement(SelectTokens(Ident("a"), Ident("t")))>>)
    [] sql = SqlSelectAA ->
         Ok(<<Statement(SelectTokens(IdList(Ident("a"), Ident("a")), Ident("t")))>>)
    [] sql = SqlSelectB -> Ok(<<Statement(SelectTokens(Ident("b"), Ident("u")))>>)
    [] sql = SqlSelectLiteral ->
         Ok(<<Statement(SelectTokens(IdList(Ident("a"), IntTok("1")), Ident("t")))>>)
    [] sql = SqlSelectAlias ->
         Ok(<<Statement(SelectTokens(Ident("a"), AliasIdent("derived_table", "d")))>>)
    [] sql = SqlJoin ->
         Ok(<<Statement(SelectTokens(Ident("a"), Ident("t1"))
                \o JoinTokens(Ident("t2"), Cmp(QIdent("t1", "id"), QIdent("t2", "id"))))>>)
    [] sql = SqlJoinQualified ->
         Ok(<<Statement(SelectTokens(Ident("id"), Ident("t1"))
                \o JoinTokens(Ident("t2"), Cmp(QIdent("t1", "id"), QIdent("t2", "k"))))>>)
    [] sql = SqlJoinUnqualified ->
         Ok(<<Statement(SelectTokens(Ident("id"), Ident("t1"))
                \o JoinTokens(Ident("t2"), Cmp(Ident("id"), Ident("k"))))>>)
    [] sql = SqlWith ->
         Ok(<<Statement(
                <<Tok("CTE", "WITH"), WS,
                  Group("Identifier",
                        <<NameTok("c"), WS, Kw("AS"), WS,
                          Paren(SelectTokens(Ident("x"), Ident("t")))>>),
                  WS>> \o SelectTokens(Ident("x"), Ident("c")))>>)
    [] sql = SqlInsert ->
         Ok(<<Statement(
                <<Dml("INSERT"), WS, Kw("INTO"), WS,
                  Group("Function", <<Ident("dest"), WS, Paren(<<Ident("c1")>>)>>),
                  WS>> \o SelectTokens(Ident("x"), Ident("t")))>>)
    [] sql = SqlDelete ->
         Ok(<<Statement(<<Dml("DELETE"), WS, Kw("FROM"), WS, Ident("t"), WS,
                          WhereClause(Cmp(Ident("a"), Ident("b")))>>)>>)
    [] sql = SqlUpdate ->
         Ok(<<Statement(<<Dml("UPDATE"), WS, Ident("t"), WS, Kw("SET"), WS,
                          IdList(Cmp(Ident("a"), Ident("b")), Cmp(Ident("id"), Ident("k")))>>)>>)
    [] sql = SqlTwo ->
         Ok(<<Statement(SelectTokens(Ident("a"), Ident("t")) \o <<Tok("Punctuation", ";"), WS>>),
              Statement(SelectTokens(IdList(Ident("b"), IntTok("1")), Ident("u")))>>)
    [] sql = SqlUpdateOne ->
         Ok(<<Statement(<<Dml("UPDATE"), WS, Ident("t"), WS, Kw("SET"), WS,
                          Cmp(Ident("a"), Ident("b"))>>)>>)
    [] sql = SqlUpdateWhere ->
         Ok(<<Statement(<<Dml("UPDATE"), WS, Ident("t"), WS, Kw("SET"), WS,
                          IdList(Cmp(Ident("a"), Ident("b")), Cmp(Ident("id"), Ident("k"))),
                          WS, WhereClause(Cmp(Ident("c"), Ident("d")))>>)>>)
    [] sql = SqlDeleteAll ->
         Ok(<<Statement(<<Dml("DELETE"), WS, Kw("FROM"), WS, Ident("t")>>)>>)
    [] sql = SqlSelectThenDelete ->
         Ok(<<Statement(SelectTokens(Ident("a"), Ident("t")) \o <<Tok("Punctuation", ";"), WS>>),
              Statement(<<Dml("DELETE"), WS, Kw("FROM"), WS, Ident("t"), WS,
                          WhereClause(Cmp(Ident("a"), Ident("b")))>>)>>)
    [] sql = SqlInsertValues ->
         Ok(<<Statement(
                <<Dml("INSERT"), WS, Kw("INTO"), WS,
                  Group("Function", <<Ident("dest"), WS, Paren(<<Ident("c1")>>)>>),
                  WS,
                  Group("Values", <<Kw("VALUES"), WS, Paren(<<IntTok("1")>>)>>)>>)>>)
    [] sql = SqlCreateAs ->
         Ok(<<Statement(<<Tok("DDL", "CREATE"), WS, Kw("TABLE"), WS, Ident("dest"), WS,
                          Kw("AS"), WS>> \o SelectTokens(Ident("x"), Ident("t")))>>)
    [] sql = SqlCreatePlain ->
         Ok(<<Statement(<<Tok("DDL", "CREATE"), WS, Kw("TABLE"), WS, Ident("dest"), WS,
                          Paren(<<Ident("c1"), WS, Tok("Builtin", "INT")>>)>>)>>)
    [] sql = SqlUnion ->
         Ok(<<Statement(SelectTokens(Ident("a"), Ident("t")) \o <<WS, Kw("UNION"), WS>>
                          \o SelectTokens(Ident("a"), Ident("u")))>>)
    [] sql = SqlUnionAll ->
         Ok(<<Statement(SelectTokens(Ident("a"), Ident("t")) \o <<WS, Kw("UNION ALL"), WS>>
                          \o SelectTokens(Ident("b"), Ident("u")))>>)
    [] sql = SqlWithTwo ->
         Ok(<<Statement(
                <<Tok("CTE", "WITH"), WS,
                  IdList(Group("Identifier",
                               <<NameTok("c"), WS, Kw("AS"), WS,
                                 Paren(SelectTokens(Ident("x"), Ident("t")))>>),
                         Group("Identifier",
                               <<NameTok("d"), WS, Kw("AS"), WS,
                                 Paren(SelectTokens(Ident("x"), Ident("c")))>>)),
                  WS>> \o SelectTokens(Ident("x"), Ident("d")))>>)
    [] sql = SqlFromTwo ->
         Ok(<<Statement(SelectTokens(Ident("a"), IdList(Ident("t"), Ident("u"))))>>)
    [] sql = SqlQualifiedAlias ->
         Ok(<<Statement(SelectTokens(QIdent("d", "a"), AliasIdent("t", "d")))>>)
    [] sql = SqlUnknownQualifier ->
         Ok(<<Statement(SelectTokens(QIdent("u", "a"), Ident("t")))>>)
    [] sql = SqlFunction ->
         Ok(<<Statement(SelectTokens(IdList(Call("sum", <<Ident("a")>>), Ident("k")),
                                      Ident("t")))>>)
    [] sql = SqlFunctionTwoArgs ->
         Ok(<<Statement(SelectTokens(
                          IdList(Call("sum", <<IdList(Ident("a"), Ident("b"))>>), Ident("k")),
                          Ident("t")))>>)
    [] sql = SqlFunctionOp ->
         Ok(<<Statement(SelectTokens(
                          IdList(Call("sum", <<Plus(Ident("a"), Ident("b"))>>), Ident("k")),
                          Ident("t")))>>)
    [] sql = SqlFunctionAlone ->
         Ok(<<Statement(SelectTokens(Call("sum", <<Ident("a")>>), Ident("t")))>>)
    [] sql \in NestedInputs ->
         Ok(<<Statement(SelectTokens(
                          IdList(NestedCall(CHOOSE n \in 2..MaxNesting : SqlNested(n) = sql),
                                 Ident("k")),
                          Ident("t")))>>)
    [] sql = SqlGroupByOne ->
         Ok(<<Statement(SelectTokens(Ident("a"), Ident("t"))
                          \o <<WS, Kw("GROUP BY"), WS, Ident("b")>>)>>)
    [] sql = SqlGroupByList ->
         Ok(<<Statement(SelectTokens(Ident("a"), Ident("t"))
                          \o <<WS, Kw("GROUP BY"), WS, IdList(Ident("b"), Ident("k"))>>)>>)
    [] sql = SqlInsertWide ->
         Ok(<<Statement(
                <<Dml("INSERT"), WS, Kw("INTO"), WS,
                  Group("Function",
                        <<Ident("dest"), WS, Paren(<<IdList(Ident("c1"), Ident("k"))>>)>>),
                  WS>> \o SelectTokens(Ident("x"), Ident("t")))>>)
    [] sql = SqlInsertNarrow ->
         Ok(<<Statement(
                <<Dml("INSERT"), WS, Kw("INTO"), WS,
                  Group("Function", <<Ident("dest"), WS, Paren(<<Ident("c1")>>)>>),
                  WS>> \o SelectTokens(IdList(Ident("x"), Ident("a")), Ident("t")))>>)

\* the levels of groups of a token tree
MaxOf(S) == CHOOSE d \in S : \A x \in S : x <= d

RECURSIVE Depth(_)
DeepestOf(toks) ==
  IF toks = <<>> THEN 0 ELSE MaxOf({Depth(toks[j]) : j \in 1..Len(toks)})

Depth(token) == IF IsTokenList(token) THEN 1 + DeepestOf(token.tokens) ELSE 0

\* a mutant: the interpreter sets no limit
TooDeepNever(statements) == FALSE

\* sqlparse groups a statement by recursing into every sublist, one level
\* of calls per level of groups: a tree deeper than the interpreter allows
\* makes it raise RecursionError
TooDeep(statements) == \E j \in 1..Len(statements) : Depth(statements[j]) > RecursionLimit

\* what sqlparse.parse gives for the tree of a text: the tree, or the
\* exception raised while building it
WithinStack(statements) ==
  IF ~statements.exc /\ TooDeep(statements.val) THEN Raised ELSE statements

\* the parse of every input, computed once
Parsed == [sql \in Inputs |-> WithinStack(Parse(sql))]

\* the inputs of the sessions that call one instance several times
SessionInputs ==
  {NonText, SqlSelectA, SqlSelectB, SqlSelectLiteral, SqlJoinUnqualified, SqlTwo,
   SqlGroupByList}

(* ---------------------------------------------------------------------- *)
(* The engine                                                              *)
(* ---------------------------------------------------------------------- *)
\* the for loop of trace_lineage over what sqlparse.parse returned, or the
\* exception parse raised
TraceParsed(st, statements) ==
  IF statements.exc THEN Raise(st) ELSE ProcessStatements(st, statements.val)

\* the try block of trace_lineage on an instance whose dictionaries are
\* lineage and ctes: the state it leaves and whether it raised
TryTrace(g, c, sql) == TraceParsed([lineage |-> g, ctes |-> c, exc |-> FALSE], Parsed[sql])

\* a mutant: one dictionary, made at class level, serves every instance
StoreShared(e) == "e1"

\* self.lineage = {} and self.ctes = {} in __init__: each instance owns the
\* dictionaries Store(e)
Store(e) == e

\* a mutant: the except branch hands back the instance's dictionary
FailureResultLineage(g) == g

\* return {} of the except branch (g is self.lineage)
FailureResult(g) == EmptyGraph

\* what the dictionary a call handed back holds later on: return
\* self.lineage hands back the instance's own dictionary (own: what that
\* dictionary holds now), return {} a new one nobody else writes (snapshot:
\* what was handed back)
ReturnedContent(how, own, snapshot) == IF how = "lineage" THEN own ELSE snapshot

NoCall == "<no call>"

VARIABLES
  lineage,     \* lineage[s]: the dictionary self.lineage of the instances with Store = s
  ctes,        \* ctes[s]: the dictionary self.ctes
  calls,       \* trace_lineage calls made so far, over all instances
  lastInput,   \* lastInput[e]: the argument of e's latest call
  returned,    \* returned[e]: the graph e's latest call returned, as returned
  outcome,     \* outcome[e]: "none", "lineage" (return self.lineage) or "empty" (return {})
  firstInput,  \* firstInput[e]: the argument of e's first call
  firstGraph,  \* firstGraph[e]: the graph e's first call returned
  errors,      \* logger.error calls so far
  \* src/inference.py, predict_lineage
  models,      \* models[i]: what model i predicts for the statement (pred[0])
  thresholds,  \* thresholds[i]: the i-th threshold read by load_models
  predictions, \* the list predictions
  pair,        \* the position of the loop over zip(models, thresholds)
  predicted,   \* what predict_lineage returned
  \* src/train.py, optimize_hyperparameters
  tried,       \* the number of candidates cross-validated so far
  best_f1,     \* the local best_f1
  best_params, \* the local best_params
  top_f1,      \* the highest F1 cross_validation returned so far (-1: none yet)
  top_params,  \* the first candidate that got top_f1
  found        \* what optimize_hyperparameters returned

tracerVars == <<lineage, ctes, calls, lastInput, returned, outcome, firstInput, firstGraph, errors>>
voteVars == <<models, thresholds, predictions, pair, predicted>>
searchVars == <<tried, best_f1, best_params, top_f1, top_params, found>>
vars == <<tracerVars, voteVars, searchVars>>

\* nothing returned yet
Pending == "<pending>"

\* predict_lineage not called
VoteIdle ==
  /\ models = <<>>
  /\ thresholds = <<>>
  /\ predictions = <<>>
  /\ pair = 1
  /\ predicted = Pending

\* Python's None where a dict of parameters is expected
NoneParams == [none |-> TRUE]

\* optimize_hyperparameters has not returned
Searching == [searching |-> TRUE]

\* best_params = None; best_f1 = 0 (and nothing returned yet)
SearchStart ==
  /\ tried = 0
  /\ best_f1 = 0
  /\ best_params = NoneParams
  /\ top_f1 = -1
  /\ top_params = NoneParams
  /\ found = Searching

\* self.lineage = {}; self.ctes = {} for each instance, no call made
TracerInit ==
  /\ lineage = [e \in Engines |-> EmptyGraph]
  /\ ctes = [e \in Engines |-> EmptyGraph]
  /\ calls = 0
  /\ lastInput = [e \in Engines |-> NoCall]
  /\ returned = [e \in Engines |-> EmptyGraph]
  /\ outcome = [e \in Engines |-> "none"]
  /\ firstInput = [e \in Engines |-> NoCall]
  /\ firstGraph = [e \in Engines |-> EmptyGraph]
  /\ errors = 0

\* the state after SQLLineageTracer() for each instance; the two other
\* programs are not run
Init ==
  /\ TracerInit
  /\ VoteIdle
  /\ SearchStart

\* what every trace_lineage call records about itself
Called(e, sql, graph, how) ==
  /\ calls' = calls + 1
  /\ lastInput' = [lastInput EXCEPT ![e] = sql]
  /\ returned' = [returned EXCEPT ![e] = graph]
  /\ outcome' = [outcome EXCEPT ![e] = how]
  /\ firstInput' = IF firstInput[e] = NoCall THEN [firstInput EXCEPT ![e] = sql] ELSE firstInput
  /\ firstGraph' = IF firstInput[e] = NoCall THEN [firstGraph EXCEPT ![e] = graph] ELSE firstGraph
  /\ UNCHANGED <<voteVars, searchVars>>

\* what trace_lineage writes and returns when its try block ends without
\* an exception (st: what the try block left)
Returns(e, sql, st) ==
  /\ ~st.exc
  /\ lineage' = [lineage EXCEPT ![Store(e)] = st.lineage]
  /\ ctes' = [ctes EXCEPT ![Store(e)] = st.ctes]
  /\ Called(e, sql, st.lineage, "lineage")
  /\ UNCHANGED errors

\* what trace_lineage writes and returns when the try block raised: what was
\* written before the exception stays written
Fails(e, sql, st) ==
  /\ st.exc
  /\ lineage' = [lineage EXCEPT ![Store(e)] = st.lineage]
  /\ ctes' = [ctes EXCEPT ![Store(e)] = st.ctes]
  /\ Called(e, sql, FailureResult(st.lineage), "empty")
  /\ errors' = errors + 1

\* trace_lineage(sql) on instance e, no exception: return self.lineage
TraceReturns(e, sql) ==
  /\ calls < MaxCalls
  /\ Returns(e, sql, TryTrace(lineage[Store(e)], ctes[Store(e)], sql))

\* trace_lineage(sql) on instance e, an exception caught: logger.error and
\* return {}
TraceFails(e, sql) ==
  /\ calls < MaxCalls
  /\ Fails(e, sql, TryTrace(lineage[Store(e)], ctes[Store(e)], sql))

\* sessions: any instance is called again and again
Next ==
  \E e \in Engines, sql \in SessionInputs :
    \/ TraceReturns(e, sql)
    \/ TraceFails(e, sql)

Spec == Init /\ [][Next]_vars

\* the first call on an instance, no exception
FirstTraceReturns(e, sql) == lastInput[e] = NoCall /\ TraceReturns(e, sql)

\* the first call on an instance, an exception caught
FirstTraceFails(e, sql) == lastInput[e] = NoCall /\ TraceFails(e, sql)

\* fresh instances: each instance traces one input, any of Inputs
NextFresh ==
  \E e \in Engines, sql \in Inputs :
    \/ FirstTraceReturns(e, sql)
    \/ FirstTraceFails(e, sql)

SpecFresh == Init /\ [][NextFresh]_vars

(* ---------------------------------------------------------------------- *)
(* src/inference.py: predict_lineage                                       *)
(* ---------------------------------------------------------------------- *)
\* the lists of at most n members of S
ListsOf(S, n) == UNION {[1..k -> S] : k \in 0..n}

\* the predictions and thresholds are numbers; Levels is their range here
Levels == 0..MaxLevel

\* label_mapping, indexed by 0 and 1
LabelMapping == <<"lineage 0", "lineage 1">>

\* sum(predictions)
RECURSIVE Sum(_)
Sum(s) == IF s = <<>> THEN 0 ELSE Head(s) + Sum(Tail(s))

Min(a, b) == IF a < b THEN a ELSE b

\* a mutant: a tie counts as a majority
MajorityOrTie(votes, n) == 2 * votes >= n

\* sum(predictions) > len(predictions) / 2 (a true division)
Majority(votes, n) == 2 * votes > n

\* pred_label = 1 if pred[0] > threshold else 0
PredLabel(pred, threshold) == IF pred > threshold THEN 1 ELSE 0

\* predict_lineage is called with the lists load_models returned (it reads
\* the two kinds of files independently, so their lengths may differ)
InitVote ==
  /\ TracerInit
  /\ SearchStart
  /\ models \in ListsOf(Levels, MaxModels)
  /\ thresholds \in ListsOf(Levels, MaxModels)
  /\ predictions = <<>>
  /\ pair = 1
  /\ predicted = Pending

\* one round of for model, threshold in zip(models, thresholds)
VoteStep ==
  /\ predicted = Pending
  /\ pair <= Min(Len(models), Len(thresholds))
  /\ predictions' = Append(predictions, PredLabel(models[pair], thresholds[pair]))
  /\ pair' = pair + 1
  /\ UNCHANGED <<models, thresholds, predicted, tracerVars, searchVars>>

\* final_prediction = ...; return label_mapping[final_prediction]
VoteReturn ==
  /\ predicted = Pending
  /\ pair > Min(Len(models), Len(thresholds))
  /\ predicted' = LabelMapping[(IF Majority(Sum(predictions), Len(predictions)) THEN 1 ELSE 0) + 1]
  /\ UNCHANGED <<models, thresholds, predictions, pair, tracerVars, searchVars>>

NextVote == VoteStep \/ VoteReturn

SpecVote == InitVote /\ [][NextVote]_vars

(* ---------------------------------------------------------------------- *)
(* src/train.py: optimize_hyperparameters                                  *)
(* ---------------------------------------------------------------------- *)
\* the candidate lists (eta in hundredths)
eta_candidates == <<1, 5, 10, 30>>
max_depth_candidates == <<3, 4, 5, 6>>
num_round_candidates == <<100, 200, 300, 400>>

\* the number of rounds of the three nested loops
GridSize == Len(eta_candidates) * Len(max_depth_candidates) * Len(num_round_candidates)

\* best_params of the round numbered i (from 0): params.copy() with its
\* num_round; eta is the outermost loop, num_round the innermost
Candidate(i) ==
  [max_depth |->
     max_depth_candidates[((i \div Len(num_round_candidates)) % Len(max_depth_candidates)) + 1],
   eta |->
     eta_candidates[(i \div (Len(num_round_candidates) * Len(max_depth_candidates))) + 1],
   objective |-> "binary:logistic",
   eval_metric |-> "logloss",
   num_round |-> num_round_candidates[(i % Len(num_round_candidates)) + 1]]

\* the mean F1 cross_validation may return, in steps of 1 / MaxF1
F1Levels == 0..MaxF1

\* optimize_hyperparameters is called
InitSearch ==
  /\ TracerInit
  /\ VoteIdle
  /\ SearchStart

\* one round of the innermost loop: cross_validation returns f1 for the
\* candidate, which becomes the best one if f1 > best_f1
SearchStep ==
  /\ found = Searching
  /\ tried < GridSize
  /\ \E f1 \in F1Levels :
       /\ best_f1' = IF f1 > best_f1 THEN f1 ELSE best_f1
       /\ best_params' = IF f1 > best_f1 THEN Candidate(tried) ELSE best_params
       /\ top_f1' = IF f1 > top_f1 THEN f1 ELSE top_f1
       /\ top_params' = IF f1 > top_f1 THEN Candidate(tried) ELSE top_params
  /\ tried' = tried + 1
  /\ UNCHANGED <<found, tracerVars, voteVars>>

\* return best_params
SearchReturn ==
  /\ found = Searching
  /\ tried = GridSize
  /\ found' = best_params
  /\ UNCHANGED <<tried, best_f1, best_params, top_f1, top_params, tracerVars, voteVars>>

NextSearch == SearchStep \/ SearchReturn

SpecSearch == InitSearch /\ [][NextSearch]_vars

(* ---------------------------------------------------------------------- *)
(* Properties                                                              *)
(* ---------------------------------------------------------------------- *)
\* what a fresh instance records for sql
FreshGraph(sql) == TryTrace(EmptyGraph, EmptyGraph, sql).lineage

\* the (alias, table) pairs a statement's FROM clause introduces
RECURSIVE AliasLoop(_, _, _)
AliasLoop(toks, i, from_seen) ==
  IF i > Len(toks) THEN {}
  ELSE (IF from_seen /\ toks[i].cls = "Identifier" /\ HasAlias(toks[i])
          THEN {<<GetAlias(toks[i]), GetRealName(toks[i])>>} ELSE {})
       \cup AliasLoop(toks, i + 1,
              from_seen \/ (toks[i].ttype = "Keyword" /\ toks[i].value = "FROM"))

TableAliases(sql) ==
  IF Parsed[sql].exc THEN {}
  ELSE UNION {AliasLoop(Parsed[sql].val[j].tokens, 1, FALSE) : j \in 1..Len(Parsed[sql].val)}

\* a column reference with its table alias replaced by the table's name
Canonical(aliases, ref) ==
  IF \E p \in aliases : p[1] = ref[1]
    THEN <<(CHOOSE p \in aliases : p[1] = ref[1])[2], ref[2]>>
    ELSE ref

Edge(tt, tc, sourceTable, sourceColumn) == <<<<tt, tc>>, <<sourceTable, sourceColumn>>>>

\* C1: no edge of the graph has a target equal to its source once table
\* aliases are replaced by the table they stand for.
C1_NoSelfEdgeCanonical ==
  \A e \in Engines :
    lastInput[e] # NoCall =>
      \A edge \in Edges(lineage[e]) :
        Canonical(TableAliases(lastInput[e]), edge[1])
          # Canonical(TableAliases(lastInput[e]), edge[2])

\* the column references of a graph
Refs(g) == DOMAIN g \cup UNION {g[k] : k \in DOMAIN g}

\* C2: adding a (target, source) pair that the graph already holds, or that
\* was added before, leaves the graph unchanged, and SELECT a, a FROM t
\* leaves the single edge t.a -> derived_table.a.
C2_Idempotent ==
  \A e \in Engines :
    /\ \A edge \in Edges(lineage[e]) : AddLineage(lineage[e], edge[1], edge[2]) = lineage[e]
    /\ \A t \in Refs(lineage[e]), s1 \in Refs(lineage[e]), s2 \in Refs(lineage[e]) :
         LET g2 == AddLineage(AddLineage(lineage[e], t, s1), t, s2)
         IN t # s1 => /\ s1 \in g2[t]
                      /\ AddLineage(g2, t, s1) = g2
    /\ lastInput[e] = SqlSelectAA => Edges(lineage[e]) = {Edge("derived_table", "a", "t", "a")}

C2_Witness ==
  \E e \in Engines :
    /\ lastInput[e] = SqlSelectAA
    /\ Cardinality(Edges(returned[e])) = 1

\* C3: the graph a call returns holds only edges derived from that call's
\* input, whatever the instance traced before.
C3_NoLeak ==
  \A e \in Engines :
    outcome[e] = "lineage" => Edges(returned[e]) \subseteq Edges(FreshGraph(lastInput[e]))

\* C4: two instances whose first call traces the same input get the same
\* graph from it.
C4_Deterministic ==
  \A e1 \in Engines, e2 \in Engines :
    (firstInput[e1] # NoCall /\ firstInput[e1] = firstInput[e2])
      => firstGraph[e1] = firstGraph[e2]

C4_Witness ==
  \E e1 \in Engines, e2 \in Engines :
    /\ e1 # e2
    /\ firstInput[e1] = SqlJoinUnqualified
    /\ firstInput[e2] = SqlJoinUnqualified
    /\ firstGraph[e1] # EmptyGraph

\* C5: a statement with one unsupported construct (the literal of
\* SELECT a, 1 FROM t) still returns the edge of its other projected column.
C5_OtherColumnsKept ==
  \A e \in Engines :
    lastInput[e] = SqlSelectLiteral =>
      \E q \in {"result", "derived_table"} : Edge(q, "a", "t", "a") \in Edges(returned[e])

\* C6: a call whose parse fails returns the empty graph and logs a
\* diagnostic, whatever the instance holds.
C6_ParseFailureEmpty ==
  \A e \in Engines :
    /\ lastInput[e] = NonText => (outcome[e] = "empty" /\ returned[e] = EmptyGraph /\ errors >= 1)
    /\ outcome[e] = "empty" => returned[e] = EmptyGraph

C6_Witness ==
  \E e \in Engines :
    /\ lastInput[e] = NonText
    /\ lineage[e] # EmptyGraph
    /\ returned[e] = EmptyGraph

\* C7 as stated: SELECT a FROM t on a fresh instance yields exactly the
\* edge t.a -> result.a.
C7_ResultTarget ==
  \A e \in Engines :
    lastInput[e] = SqlSelectA => Edges(returned[e]) = {Edge("result", "a", "t", "a")}

\* C7 amended: SELECT a FROM t on a fresh instance yields exactly the edge
\* t.a -> derived_table.a.
C7_DerivedTableTarget ==
  \A e \in Engines :
    lastInput[e] = SqlSelectA =>
      /\ outcome[e] = "lineage"
      /\ Edges(returned[e]) = {Edge("derived_table", "a", "t", "a")}

C7_Witness ==
  \E e \in Engines : lastInput[e] = SqlSelectA /\ DOMAIN returned[e] # {}

\* the inputs with a JOIN, the columns they project and the columns that
\* appear in their join predicate only
JoinInputs == {SqlJoin, SqlJoinQualified, SqlJoinUnqualified}
Projected(sql) == IF sql = SqlJoin THEN {"a"} ELSE {"id"}
PredicateOnly(sql) == IF sql = SqlJoin THEN {"id"} ELSE {"k"}

\* no column of the join predicate alone is a source of a projected column
NoPredicateSource(g, sql) ==
  \A edge \in Edges(g) :
    edge[1][2] \in Projected(sql) => edge[2][2] \notin PredicateOnly(sql)

C9_CteResolved ==
  \A e \in Engines :
    lastInput[e] = SqlWith =>
      \E q \in {"result", "derived_table"} :
        /\ Edge(q, "x", "t", "x") \in Edges(returned[e])
        /\ Edge(q, "x", "c", "x") \notin Edges(returned[e])

\* C10: INSERT INTO dest (c1) SELECT x FROM t yields the edge t.x -> dest.c1.
C10_InsertPositional ==
  \A e \in Engines :
    lastInput[e] = SqlInsert => Edge("dest", "c1", "t", "x") \in Edges(returned[e])

\* C11: the graph a call handed back is never changed by a later step of
\* the engine.
C11_SnapshotImmutable ==
  [][\A e \in Engines :
       outcome[e] # "none" =>
         ReturnedContent(outcome[e], lineage'[Store(e)], returned[e]) = returned[e]]_vars

\* the (column, source column) pairs of the SET lists of the UPDATE inputs
\* (all of table t)
Assigned(sql) == IF sql = SqlUpdateOne THEN {<<"a", "b">>} ELSE {<<"a", "b">>, <<"id", "k">>}

\* C12: every assignment column = expr of an UPDATE of t, alone in its SET
\* list or not, yields the edge into t.column from each source column of
\* expr, and the assignments add edges into no other column.
C12_UpdateAssignments ==
  \A e \in Engines :
    lastInput[e] \in {SqlUpdateOne, SqlUpdate} =>
      /\ \A p \in Assigned(lastInput[e]) : Edge("t", p[1], "t", p[2]) \in Edges(returned[e])
      /\ \A edge \in Edges(returned[e]) : edge[1][2] \in {p[1] : p \in Assigned(lastInput[e])}

\* C13: every column of the WHERE clause of an UPDATE (c and d) is a source
\* of every column its SET list assigns (a and id), whatever the table
\* names of the edge.
C13_WhereIntoAssigned ==
  \A e \in Engines :
    lastInput[e] = SqlUpdateWhere =>
      \A p \in Assigned(SqlUpdateWhere), w \in {"c", "d"} :
        \E edge \in Edges(returned[e]) : edge[1][2] = p[1] /\ edge[2][2] = w

\* C14 as stated: tracing a DELETE leaves the graph exactly as it was,
\* whatever its WHERE clause references (a fresh instance's graph stays
\* empty; after SELECT a FROM t it stays the one edge of that SELECT).
C14_DeleteNoEdges ==
  \A e \in Engines :
    /\ lastInput[e] \in {SqlDelete, SqlDeleteAll} => lineage[e] = EmptyGraph
    /\ lastInput[e] = SqlSelectThenDelete =>
         Edges(lineage[e]) = {Edge("derived_table", "a", "t", "a")}

\* C14 amended: DELETE FROM t WHERE a = b adds exactly the edges
\* t.b -> t.a and t.a -> t.b (the sides of the WHERE comparison, linked both
\* ways under the deleted table) to what the graph held; a DELETE without
\* WHERE leaves the graph as it was.
C14_DeleteLinksWhere ==
  \A e \in Engines :
    /\ lastInput[e] = SqlDelete =>
         Edges(returned[e]) = {Edge("t", "a", "t", "b"), Edge("t", "b", "t", "a")}
    /\ lastInput[e] = SqlSelectThenDelete =>
         Edges(returned[e]) = {Edge("derived_table", "a", "t", "a"),
                               Edge("t", "a", "t", "b"), Edge("t", "b", "t", "a")}
    /\ lastInput[e] = SqlDeleteAll => (outcome[e] = "lineage" /\ returned[e] = EmptyGraph)

C14_Witness ==
  \E e1 \in Engines, e2 \in Engines :
    /\ lastInput[e1] = SqlDelete /\ DOMAIN returned[e1] # {}
    /\ lastInput[e2] = SqlDeleteAll /\ outcome[e2] = "lineage"

\* the tables the modelled statements name
RealTables == {"t", "t1", "t2", "u", "c", "d", "dest", "derived_table"}

\* C15: INSERT INTO dest (c1) VALUES (1) records one edge into the
\* destination column dest.c1, whose source is a literal marker: no column
\* of a real table.
C15_LiteralMarker ==
  \A e \in Engines :
    lastInput[e] = SqlInsertValues =>
      /\ Cardinality({edge \in Edges(returned[e]) : edge[1] = <<"dest", "c1">>}) = 1
      /\ \A edge \in Edges(returned[e]) : edge[2][1] \notin RealTables

\* C16: CREATE TABLE dest AS SELECT x FROM t processes the embedded SELECT
\* with dest as target (the edge from t.x is recorded, and every edge has
\* dest as the table of its target); a CREATE without SELECT adds no edge.
C16_CreateAsSelect ==
  \A e \in Engines :
    /\ lastInput[e] = SqlCreateAs =>
         /\ \E edge \in Edges(returned[e]) : edge[2] = <<"t", "x">>
         /\ \A edge \in Edges(returned[e]) : edge[1][1] = "dest"
    /\ lastInput[e] = SqlCreatePlain => returned[e] = EmptyGraph

\* C17 (with either synthesized target qualifier): the projected column of
\* a UNION or UNION ALL holds, under the one shared target, the source of
\* its first branch and the source of its second branch.
C17_UnionBranches ==
  \A e \in Engines :
    /\ lastInput[e] = SqlUnion =>
         \E q \in {"result", "derived_table"} :
           {Edge(q, "a", "t", "a"), Edge(q, "a", "u", "a")} \subseteq Edges(returned[e])
    /\ lastInput[e] = SqlUnionAll =>
         \E q \in {"result", "derived_table"} :
           {Edge(q, "a", "t", "a"), Edge(q, "a", "u", "b")} \subseteq Edges(returned[e])

\* the CTE names the WITH inputs declare
CteNames(sql) == IF sql = SqlWith THEN {"c"} ELSE {"c", "d"}

\* C18: when a WITH statement has been traced, every CTE it declares is a
\* registered name, the body of the first CTE has been traced (its source
\* t.x is in the graph), and the main query completed and contributed its
\* own edge into column x of the synthesized target.
C18_WithOrder ==
  \A e \in Engines :
    lastInput[e] \in {SqlWith, SqlWithTwo} =>
      /\ outcome[e] = "lineage"
      /\ CteNames(lastInput[e]) \subseteq DOMAIN ctes[e]
      /\ \E edge \in Edges(lineage[e]) : edge[2] = <<"t", "x">>
      /\ \E edge \in Edges(lineage[e]) :
           edge[1][1] \in {"result", "derived_table"} /\ edge[1][2] = "x"

\* C19 (with either synthesized target qualifier): the unqualified column a
\* projected from a FROM clause of two tables has two sources, one per
\* table.
C19_EveryEnclosingTable ==
  \A e \in Engines :
    /\ lastInput[e] = SqlFromTwo =>
         \E q \in {"result", "derived_table"} :
           {edge \in Edges(returned[e]) : edge[1] = <<q, "a">>}
             = {Edge(q, "a", "t", "a"), Edge(q, "a", "u", "a")}
    /\ lastInput[e] = SqlJoin =>
         \E q \in {"result", "derived_table"} :
           {Edge(q, "a", "t1", "a"), Edge(q, "a", "t2", "a")} \subseteq Edges(returned[e])

\* C20 (with either synthesized target qualifier): with FROM t d, the
\* qualified column d.a has exactly one source, t.a (the alias resolved to
\* its table), not d.a.
C20_QualifiedResolved ==
  \A e \in Engines :
    lastInput[e] = SqlQualifiedAlias =>
      \E q \in {"result", "derived_table"} : Edges(returned[e]) = {Edge(q, "a", "t", "a")}

\* C21: a column qualified by a name that is no table or alias in scope
\* (u.a with FROM t) is not a failure and still yields the source u.a.
C21_UnknownAliasKept ==
  \A e \in Engines :
    lastInput[e] = SqlUnknownQualifier =>
      /\ outcome[e] = "lineage"
      /\ \E edge \in Edges(returned[e]) : edge[2] = <<"u", "a">>

\* the inputs that project a function call (next to column k, or alone) and
\* the columns of t its arguments reference
FunctionInputs == {SqlFunction, SqlFunctionTwoArgs, SqlFunctionOp, SqlFunctionAlone}
ArgumentColumns(sql) == IF sql \in {SqlFunction, SqlFunctionAlone} THEN {"a"} ELSE {"a", "b"}

\* C22: the sources recorded for a projected function call are exactly the
\* columns its arguments reference: each of them, and nothing else (no
\* aggregate marker).
C22_FunctionSources ==
  \A e \in Engines :
    lastInput[e] \in FunctionInputs =>
      {edge[2] : edge \in {x \in Edges(returned[e]) : x[1][2] # "k"}}
        = {<<"t", c>> : c \in ArgumentColumns(lastInput[e])}

\* the number of nested calls of a nested input, and whether its token tree
\* (statement, list, two groups per call, the innermost column) is deeper
\* than the recursion limit
Nesting(sql) == CHOOSE n \in 2..MaxNesting : SqlNested(n) = sql
BeyondLimit(sql) == 2 * Nesting(sql) + 3 > RecursionLimit

GroupColumns(sql) == IF sql = SqlGroupByOne THEN {"b"} ELSE {"b", "k"}

\* C24 (with either synthesized target qualifier): every GROUP BY
\* expression, alone or in a list, is the key of a target under the
\* statement's target table whose sources hold the column it references.
C24_GroupByAttributed ==
  \A e \in Engines :
    lastInput[e] \in {SqlGroupByOne, SqlGroupByList} =>
      \A c \in GroupColumns(lastInput[e]) :
        \E edge \in Edges(returned[e]) :
          /\ edge[1][1] \in {"result", "derived_table"}
          /\ edge[1][2] = c
          /\ edge[2][2] = c

\* the (model, threshold) pairs predict_lineage looks at, and those whose
\* model scores above its threshold
Pairs == 1..Min(Len(models), Len(thresholds))
Above == {i \in Pairs : models[i] > thresholds[i]}

\* C25: predict_lineage returns the label of class 1 exactly when strictly
\* more than half of the pairs score above their threshold, and the label
\* of class 0 otherwise (a tie and no pair at all included).
C25_MajorityVote ==
  predicted # Pending =>
    predicted = (IF 2 * Cardinality(Above) > Cardinality(Pairs)
                   THEN LabelMapping[2] ELSE LabelMapping[1])

C25_Witness ==
  /\ predicted = LabelMapping[1]
  /\ Cardinality(Pairs) = 2
  /\ Cardinality(Above) = 1

\* C26: optimize_hyperparameters returns a parameter set, never None: the
\* first candidate of the grid, in iteration order, whose cross-validated
\* F1 is the highest of all candidates.
C26_ReturnsBest ==
  found # Searching =>
    /\ found # NoneParams
    /\ found = top_params
    /\ best_f1 = top_f1

\* C27: a trace_lineage call that fails (it logs an error and returns the
\* empty graph) leaves the stored lineage and the CTE registry of every
\* instance as they were before the call.
C27_FailedTraceNoChange ==
  [][errors' # errors => (lineage' = lineage /\ ctes' = ctes)]_vars

\* comparisons as WHERE and JOIN clauses hold them (sides without
\* qualifier, qualified by a target table, qualified by another table, and
\* twice the same column) and the target tables they are processed under
SomeComparisons ==
  {Cmp(Ident("a"), Ident("b")), Cmp(Ident("id"), Ident("k")), Cmp(Ident("a"), Ident("a")),
   Cmp(QIdent("t", "a"), Ident("b")), Cmp(QIdent("t1", "id"), Ident("k")),
   Cmp(QIdent("t1", "id"), QIdent("t2", "k"))}
SomeTargets == {"derived_table", "t", "unknown_table"}

\* a side of the comparison is qualified by a table other than target_table
OtherTableSide(comparison, target_table) ==
  \E side \in {Left(comparison), Right(comparison)} :
    GetParentName(side) \notin {NoneVal, target_table}

\* C28: the edges a WHERE or JOIN comparison adds to any reachable graph
\* have both endpoints under the target table and come in symmetric
\* pairs, a comparison with a side qualified by another table adds none,
\* and in every traced graph an edge between two columns of the derived
\* table, which only a comparison records, has its reverse.
C28_ComparisonSymmetric ==
  \A e \in Engines :
    /\ \A comparison \in SomeComparisons, T \in SomeTargets :
         LET g2 == AddComparison(lineage[e], comparison, T)
         IN /\ \A edge \in Edges(g2) \ Edges(lineage[e]) :
                 /\ edge[1][1] = T
                 /\ edge[2][1] = T
                 /\ <<edge[2], edge[1]>> \in Edges(g2)
            /\ OtherTableSide(comparison, T) => g2 = lineage[e]
    /\ \A edge \in Edges(lineage[e]) :
         edge[1][1] = "derived_table" /\ edge[2][1] = "derived_table"
           => <<edge[2], edge[1]>> \in Edges(lineage[e])

C28_Witness ==
  \E e \in Engines :
    /\ lastInput[e] = SqlJoinUnqualified
    /\ Edge("derived_table", "id", "derived_table", "k") \in Edges(lineage[e])
    /\ Edge("derived_table", "k", "derived_table", "id") \in Edges(lineage[e])

\* C29: an INSERT ... SELECT whose column list and projection differ in
\* length returns normally with the first min(n, m) columns paired in order
\* (t.x -> dest.c1) and no edge into or from the surplus column or
\* expression.
C29_InsertArity ==
  \A e \in Engines :
    lastInput[e] \in {SqlInsertWide, SqlInsertNarrow} =>
      /\ outcome[e] = "lineage"
      /\ Edge("dest", "c1", "t", "x") \in Edges(returned[e])
      /\ \A edge \in Edges(returned[e]) : edge[1] # <<"dest", "k">> /\ edge[2] # <<"t", "a">>

\* C30: in every reachable state every target of an engine's graph has at
\* least one source, and no step removes a target or one of its sources.
C30_TargetsHaveSources ==
  /\ [](\A e \in Engines : \A k \in DOMAIN lineage[e] : lineage[e][k] # {})
  /\ [][\A e \in Engines : \A k \in DOMAIN lineage[e] :
          k \in DOMAIN lineage'[e] /\ lineage[e][k] \subseteq lineage'[e][k]]_vars

\* a statement whose GROUP BY attributes a column to itself (b resolves to
\* derived_table.b under the target derived_table.b) was traced into a
\* graph that already held a target, and that target kept its one source
C30_Witness ==
  \E e \in Engines :
    /\ lastInput[e] = SqlGroupByList
    /\ firstInput[e] = SqlSelectB
    /\ outcome[e] = "lineage"
    /\ DOMAIN lineage[e] = {<<"derived_table", "a">>, <<"derived_table", "b">>}
    /\ lineage[e][<<"derived_table", "b">>] = {<<"u", "b">>}

====
